---- MODULE Spec2Model ----
(***************************************************************************)
(* Device composition, bus dispatch, DMA handler resolution and lifecycle  *)
(* of the emulated console (src/Core/mupen64plus-core/src/device/device.c).*)
(*                                                                         *)
(* A 32-bit word is the pair <<hi, lo>> of its 16-bit halves, so that the  *)
(* whole 32-bit address space is representable and shifts truncate as a    *)
(* uint32_t does.  A pointer is a path of names; NULL is the empty path.   *)
(***************************************************************************)
EXTENDS Integers, Sequences, FiniteSets, TLC

(***************************************************************************)
(* uint32_t arithmetic on halves                                           *)
(***************************************************************************)
W(hi, lo) == <<hi, lo>>

RECURSIVE BitAnd(_, _)
BitAnd(a, b) ==
    IF a = 0 \/ b = 0 THEN 0
    ELSE (a % 2) * (b % 2) + 2 * BitAnd(a \div 2, b \div 2)

RECURSIVE BitOr(_, _)
BitOr(a, b) ==
    IF a = 0 THEN b
    ELSE IF b = 0 THEN a
    ELSE (IF (a % 2) + (b % 2) > 0 THEN 1 ELSE 0) + 2 * BitOr(a \div 2, b \div 2)

And32(a, b) == <<BitAnd(a[1], b[1]), BitAnd(a[2], b[2])>>

Or32(a, b) == <<BitOr(a[1], b[1]), BitOr(a[2], b[2])>>

\* (x << 16) in a uint32_t: the low half moves up, the old high half is lost
Shl16(a) == <<a[2], 0>>

\* a >= b, unsigned
Geq32(a, b) == a[1] > b[1] \/ (a[1] = b[1] /\ a[2] >= b[2])

\* (size - 1) truncated to 32 bits: 0 wraps to 0xffffffff
Dec32(a) ==
    IF a[2] > 0 THEN <<a[1], a[2] - 1>>
    ELSE IF a[1] > 0 THEN <<a[1] - 1, \hffff>>
    ELSE <<\hffff, \hffff>>

\* a + b modulo 2^32
Add32(a, b) ==
    LET lo == a[2] + b[2]
        hi == a[1] + b[1] + (lo \div 65536)
    IN  <<hi % 65536, lo % 65536>>

(***************************************************************************)
(* Physical memory map base addresses (MM_* of memory/memory.h)            *)
(***************************************************************************)
MM_RDRAM_DRAM == W(\h0000, 0)
MM_RDRAM_REGS == W(\h03f0, 0)
MM_RSP_MEM    == W(\h0400, 0)
MM_RSP_REGS   == W(\h0404, 0)
MM_RSP_REGS2  == W(\h0408, 0)
MM_DPC_REGS   == W(\h0410, 0)
MM_DPS_REGS   == W(\h0420, 0)
MM_MI_REGS    == W(\h0430, 0)
MM_VI_REGS    == W(\h0440, 0)
MM_AI_REGS    == W(\h0450, 0)
MM_PI_REGS    == W(\h0460, 0)
MM_RI_REGS    == W(\h0470, 0)
MM_SI_REGS    == W(\h0480, 0)
MM_DOM2_ADDR1 == W(\h0500, 0)
MM_DD_ROM     == W(\h0600, 0)
MM_DOM2_ADDR2 == W(\h0800, 0)
MM_CART_ROM   == W(\h1000, 0)
MM_IS_VIEWER  == W(\h13ff, 0)
MM_PIF_MEM    == W(\h1fc0, 0)
MM_CART_DOM3  == W(\h1fd0, 0)

(***************************************************************************)
(* Open bus handlers                                                       *)
(***************************************************************************)
read_open_bus_low_only(address) == And32(address, W(0, \hffff))

\* *value = (address & 0xffff); *value |= (*value << 16);
read_open_bus(address) ==
    LET v == And32(address, W(0, \hffff))
    IN  Or32(v, Shl16(v))

write_open_bus_clobbers(ctrl_state, opaque, address, value, mask) ==
    [c \in DOMAIN ctrl_state |-> "dirty"]

\* empty body: the controller state is returned as it was
write_open_bus(ctrl_state, opaque, address, value, mask) == ctrl_state

(***************************************************************************)
(* Pointers are paths into the device aggregate: &dev->cart is             *)
(* <<"dev", "cart">>, &cart->cart_rom appends "cart_rom".                  *)
(***************************************************************************)
NULL == <<>>

dev == <<"dev">>

Field(p, f) == Append(p, f)

(***************************************************************************)
(* DMA handler resolver.  out is the pair the caller's *opaque / *handler  *)
(* held before the call; a branch that runs RW(o, x) replaces both.        *)
(***************************************************************************)
get_pi_dma_handler_strict(cart, dd, address, out) ==
    IF Geq32(address, MM_CART_ROM) /\ ~(address = MM_CART_ROM) THEN
        IF Geq32(address, MM_CART_DOM3) /\ ~(address = MM_CART_DOM3)
        THEN [opaque |-> cart, handler |-> "cart_dom3"]
        ELSE [opaque |-> Field(cart, "cart_rom"), handler |-> "cart_rom"]
    ELSE IF Geq32(address, MM_DOM2_ADDR2)
    THEN [opaque |-> cart, handler |-> "cart_dom2"]
    ELSE IF Geq32(address, MM_DOM2_ADDR1)
    THEN [opaque |-> dd, handler |-> "dd_dom"]
    ELSE out

get_pi_dma_handler_clears_below(cart, dd, address, out) ==
    IF Geq32(address, MM_CART_ROM) THEN
        IF Geq32(address, MM_CART_DOM3)
        THEN [opaque |-> cart, handler |-> "cart_dom3"]
        ELSE [opaque |-> Field(cart, "cart_rom"), handler |-> "cart_rom"]
    ELSE IF Geq32(address, MM_DOM2_ADDR2)
    THEN [opaque |-> cart, handler |-> "cart_dom2"]
    ELSE IF Geq32(address, MM_DOM2_ADDR1)
    THEN [opaque |-> dd, handler |-> "dd_dom"]
    ELSE [opaque |-> NULL, handler |-> "NULL"]

get_pi_dma_handler(cart, dd, address, out) ==
    IF Geq32(address, MM_CART_ROM) THEN
        IF Geq32(address, MM_CART_DOM3)
        THEN [opaque |-> cart, handler |-> "cart_dom3"]
        ELSE [opaque |-> Field(cart, "cart_rom"), handler |-> "cart_rom"]
    ELSE IF Geq32(address, MM_DOM2_ADDR2)
    THEN [opaque |-> cart, handler |-> "cart_dom2"]
    ELSE IF Geq32(address, MM_DOM2_ADDR1)
    THEN [opaque |-> dd, handler |-> "dd_dom"]
    ELSE out

(***************************************************************************)
(* init_device: the interrupt handler table                                *)
(***************************************************************************)
IH(o, h) == [opaque |-> o, handler |-> h]

interrupt_handlers_sp_dma_to_dp ==
    << IH(Field(dev, "vi"),    "vi_vertical_interrupt_event"),
       IH(Field(dev, "r4300"), "compare_int_handler"),
       IH(Field(dev, "r4300"), "check_int_handler"),
       IH(Field(dev, "si"),    "si_end_of_dma_event"),
       IH(Field(dev, "pi"),    "pi_end_of_dma_event"),
       IH(Field(Field(dev, "r4300"), "cp0"), "special_int_handler"),
       IH(Field(dev, "ai"),    "ai_end_of_dma_event"),
       IH(Field(dev, "sp"),    "rsp_interrupt_event"),
       IH(Field(dev, "dp"),    "rdp_interrupt_event"),
       IH(Field(dev, "pif"),   "hw2_int_handler"),
       IH(dev,                 "nmi_int_handler"),
       IH(dev,                 "reset_hard_handler"),
       IH(Field(dev, "dp"),    "rdp_interrupt_event"),
       IH(Field(dev, "dd"),    "dd_mecha_int_handler"),
       IH(Field(dev, "dd"),    "dd_bm_int_handler"),
       IH(Field(dev, "dd"),    "dd_dv_int_handler") >>

interrupt_handlers ==
    << IH(Field(dev, "vi"),    "vi_vertical_interrupt_event"),
       IH(Field(dev, "r4300"), "compare_int_handler"),
       IH(Field(dev, "r4300"), "check_int_handler"),
       IH(Field(dev, "si"),    "si_end_of_dma_event"),
       IH(Field(dev, "pi"),    "pi_end_of_dma_event"),
       IH(Field(Field(dev, "r4300"), "cp0"), "special_int_handler"),
       IH(Field(dev, "ai"),    "ai_end_of_dma_event"),
       IH(Field(dev, "sp"),    "rsp_interrupt_event"),
       IH(Field(dev, "dp"),    "rdp_interrupt_event"),
       IH(Field(dev, "pif"),   "hw2_int_handler"),
       IH(dev,                 "nmi_int_handler"),
       IH(dev,                 "reset_hard_handler"),
       IH(Field(dev, "sp"),    "rsp_end_of_dma_event"),
       IH(Field(dev, "dd"),    "dd_mecha_int_handler"),
       IH(Field(dev, "dd"),    "dd_bm_int_handler"),
       IH(Field(dev, "dd"),    "dd_dv_int_handler") >>

(***************************************************************************)
(* init_device: the mapping table                                          *)
(***************************************************************************)
\* one struct mem_mapping; A(x, m) expands to begin = x, end = x | m
M(x, m, type, opaque, rw, ptr, len, flags) ==
    [ begin |-> x, end |-> Or32(x, m), type |-> type,
      handler |-> [opaque |-> opaque, rw |-> rw],
      retroarch_mapping |-> [ptr |-> ptr, len |-> len, flags |-> flags] ]

Regs(c, r) == Field(Field(dev, c), r)

mappings_table(dram_size, rom_size) ==
    << [ begin |-> W(0, 0), end |-> W(\hffff, \hffff), type |-> "M64P_MEM_NOTHING",
         handler |-> [opaque |-> NULL, rw |-> "open_bus"],
         retroarch_mapping |-> [ptr |-> NULL, len |-> W(0, 0), flags |-> "0"] ],
       M(MM_RDRAM_DRAM, W(\h03ef, \hffff), "M64P_MEM_RDRAM", Field(dev, "rdram"), "rdram_dram",
         NULL, dram_size, "RETRO_MEMDESC_SYSTEM_RAM"),
       M(MM_RDRAM_REGS, W(\h000f, \hffff), "M64P_MEM_RDRAMREG", Field(dev, "rdram"), "rdram_regs",
         Regs("rdram", "regs"), W(\h000f, \hffff), "0"),
       M(MM_RSP_MEM, W(0, \hffff), "M64P_MEM_RSPMEM", Field(dev, "sp"), "rsp_mem",
         NULL, W(0, \hffff), "0"),
       M(MM_RSP_REGS, W(0, \hffff), "M64P_MEM_RSPREG", Field(dev, "sp"), "rsp_regs",
         Regs("sp", "regs"), W(0, \hffff), "0"),
       M(MM_RSP_REGS2, W(0, \hffff), "M64P_MEM_RSP", Field(dev, "sp"), "rsp_regs2",
         Regs("sp", "regs2"), W(0, \hffff), "0"),
       M(MM_DPC_REGS, W(0, \hffff), "M64P_MEM_DP", Field(dev, "dp"), "dpc_regs",
         Regs("dp", "dpc_regs"), W(0, \hffff), "0"),
       M(MM_DPS_REGS, W(0, \hffff), "M64P_MEM_DPS", Field(dev, "dp"), "dps_regs",
         Regs("dp", "dps_regs"), W(0, \hffff), "0"),
       M(MM_MI_REGS, W(0, \hffff), "M64P_MEM_MI", Field(dev, "mi"), "mi_regs",
         Regs("mi", "regs"), W(0, \hffff), "0"),
       M(MM_VI_REGS, W(0, \hffff), "M64P_MEM_VI", Field(dev, "vi"), "vi_regs",
         Regs("vi", "regs"), W(0, \hffff), "0"),
       M(MM_AI_REGS, W(0, \hffff), "M64P_MEM_AI", Field(dev, "ai"), "ai_regs",
         Regs("ai", "regs"), W(0, \hffff), "0"),
       M(MM_PI_REGS, W(0, \hffff), "M64P_MEM_PI", Field(dev, "pi"), "pi_regs",
         Regs("pi", "regs"), W(0, \hffff), "0"),
       M(MM_RI_REGS, W(0, \hffff), "M64P_MEM_RI", Field(dev, "ri"), "ri_regs",
         Regs("ri", "regs"), W(0, \hffff), "0"),
       M(MM_SI_REGS, W(0, \hffff), "M64P_MEM_SI", Field(dev, "si"), "si_regs",
         Regs("si", "regs"), W(0, \hffff), "0"),
       M(MM_DOM2_ADDR1, W(\h00ff, \hffff), "M64P_MEM_NOTHING", NULL, "open_bus",
         NULL, W(\h00ff, \hffff), "0"),
       M(MM_DD_ROM, W(\h01ff, \hffff), "M64P_MEM_NOTHING", NULL, "open_bus",
         NULL, W(\h01ff, \hffff), "0"),
       M(MM_DOM2_ADDR2, W(\h0001, \hffff), "M64P_MEM_FLASHRAMSTAT", Field(dev, "cart"), "cart_dom2",
         NULL, W(\h0001, \hffff), "0"),
       M(MM_IS_VIEWER, W(0, \h0fff), "M64P_MEM_NOTHING", Field(dev, "is"), "is_viewer",
         NULL, W(0, \h0fff), "0"),
       M(MM_CART_ROM, Dec32(rom_size), "M64P_MEM_ROM", Field(Field(dev, "cart"), "cart_rom"), "cart_rom",
         NULL, Dec32(rom_size), "RETRO_MEMDESC_CONST"),
       M(MM_PIF_MEM, W(0, \hffff), "M64P_MEM_PIF", Field(dev, "pif"), "pif_mem",
         NULL, W(0, \hffff), "0") >>

\* mappings[14] and mappings[15] of the C array are elements 15 and 16 here
dd_regs_mapping ==
    M(MM_DOM2_ADDR1, W(\h00ff, \hffff), "M64P_MEM_DDREG", Field(dev, "dd"), "dd_regs",
      NULL, W(\h00ff, \hffff), "0")

dd_rom_mapping(dd_rom_size) ==
    M(MM_DD_ROM, Dec32(dd_rom_size), "M64P_MEM_DDROM", Field(dev, "dd"), "dd_rom",
      NULL, Dec32(dd_rom_size), "RETRO_MEMDESC_CONST")

\* if (dd_rom_size > 0), on a size_t
dd_present_always(dd_rom_size) == TRUE

dd_present(dd_rom_size) == dd_rom_size # W(0, 0)

build_mappings_appends(dram_size, rom_size, dd_rom_size) ==
    LET t == mappings_table(dram_size, rom_size)
    IN  IF dd_present(dd_rom_size)
        THEN t \o << dd_regs_mapping, dd_rom_mapping(dd_rom_size) >>
        ELSE t

build_mappings(dram_size, rom_size, dd_rom_size) ==
    LET t == mappings_table(dram_size, rom_size)
    IN  IF dd_present(dd_rom_size)
        THEN [t EXCEPT ![15] = dd_regs_mapping, ![16] = dd_rom_mapping(dd_rom_size)]
        ELSE t

(***************************************************************************)
(* init_device: the init_* calls, in order, and the references they wire   *)
(***************************************************************************)
init_device_calls_dd_last(dd_rom_size) ==
    << "memory", "rdram", "r4300", "dp", "sp", "ai", "mi", "pi", "ri", "si", "vi",
       "pif", "cart" >>
    \o (IF dd_present(dd_rom_size) THEN << "dd" >> ELSE << >>)
    \o << "setup_retroarch_memory_map" >>

init_device_calls_export_before_cart(dd_rom_size) ==
    (IF dd_present(dd_rom_size) THEN << "dd" >> ELSE << >>)
    \o << "memory", "rdram", "r4300", "dp", "sp", "ai", "mi", "pi", "ri", "si", "vi",
          "pif", "setup_retroarch_memory_map", "cart" >>

\* init_dd runs inside the if (dd_rom_size > 0) block, ahead of init_memory;
\* the last call is the exporter
init_device_calls(dd_rom_size) ==
    (IF dd_present(dd_rom_size) THEN << "dd" >> ELSE << >>)
    \o << "memory", "rdram", "r4300", "dp", "sp", "ai", "mi", "pi", "ri", "si", "vi",
          "pif", "cart", "setup_retroarch_memory_map" >>

\* for each init_* call, the controllers whose address it is given
cross_references(dd_rom_size) ==
    [ memory |-> { "r4300" },
      rdram  |-> { "r4300" },
      r4300  |-> { "mem", "mi", "rdram" },
      dp     |-> { "sp", "mi", "mem", "rdram", "r4300" },
      sp     |-> { "mi", "dp", "ri" },
      ai     |-> { "mi", "ri", "vi" },
      mi     |-> { "r4300" },
      pi     |-> { "cart", "dd", "mi", "ri", "dp" },
      ri     |-> { "rdram" },
      si     |-> { "mi", "pif", "ri" },
      vi     |-> { "mi", "dp" },
      pif    |-> { "r4300", "si" },
      cart   |-> { "r4300", "pi" },
      dd     |-> IF dd_present(dd_rom_size) THEN { "r4300" } ELSE { } ]

(***************************************************************************)
(* init_device: which ROM supplies the boot vector                         *)
(***************************************************************************)
select_rom_base_cart_default(rom_size, dd_rom_size, media) ==
    IF dd_present(dd_rom_size) /\ (rom_size = W(0, 0) \/ media # "C")
    THEN MM_DD_ROM
    ELSE MM_CART_ROM

select_rom_base(rom_size, dd_rom_size, media) ==
    IF rom_size = W(0, 0) \/ (dd_present(dd_rom_size) /\ media # "C")
    THEN MM_DD_ROM
    ELSE MM_CART_ROM

(***************************************************************************)
(* Host map exporter                                                       *)
(***************************************************************************)
R4300_KSEG0 == W(\h8000, 0)

R4300_KSEG1 == W(\ha000, 0)

PIF_ROM_SIZE == W(0, \h07c0)

PIF_RAM_SIZE == W(0, \h0040)

Desc(ptr, start, len, flags, select, disconnect) ==
    [ ptr |-> ptr, start |-> start, len |-> len, flags |-> flags,
      select |-> select, disconnect |-> disconnect ]

Generic(ptr, mapping) ==
    Desc(ptr, Or32(R4300_KSEG1, mapping.begin), mapping.retroarch_mapping.len,
         mapping.retroarch_mapping.flags, W(0, 0), W(0, 0))

rdram_descs_uncached_only(mapping, d) == << Generic(d.rdram_dram, mapping) >>

rdram_descs_masks_on_uncached(mapping, d) ==
    << Desc(d.rdram_dram, Or32(R4300_KSEG0, mapping.begin), mapping.retroarch_mapping.len,
            mapping.retroarch_mapping.flags, W(0, 0), W(0, 0)),
       Desc(d.rdram_dram, Or32(R4300_KSEG1, mapping.begin), mapping.retroarch_mapping.len,
            mapping.retroarch_mapping.flags, W(\h2000, 0), W(\hc000, 0)) >>

\* RDRAM: one descriptor at KSEG0 with select/disconnect masks, one at KSEG1
rdram_descs(mapping, d) ==
    << Desc(d.rdram_dram, Or32(R4300_KSEG0, mapping.begin), mapping.retroarch_mapping.len,
            mapping.retroarch_mapping.flags, W(\h2000, 0), W(\hc000, 0)),
       Generic(d.rdram_dram, mapping) >>

save_descs_swapped(mapping, d) ==
    IF d.use_flashram = -1
    THEN << Generic(Regs("cart", "flashram"), mapping) >>
    ELSE << Generic(Regs("cart", "sram"), mapping) >>

\* save data: &dev->cart.sram when use_flashram == -1, else &dev->cart.flashram
save_descs(mapping, d) ==
    IF d.use_flashram = -1
    THEN << Generic(Regs("cart", "sram"), mapping) >>
    ELSE << Generic(Regs("cart", "flashram"), mapping) >>

pif_descs_ram_at_base(mapping, d) ==
    << Desc(d.pif_base, Or32(R4300_KSEG1, mapping.begin), PIF_ROM_SIZE,
            "RETRO_MEMDESC_CONST", W(0, 0), W(0, 0)),
       Desc(d.pif_ram, Add32(Or32(R4300_KSEG1, mapping.begin), PIF_RAM_SIZE), PIF_RAM_SIZE,
            "0", W(0, 0), W(0, 0)) >>

\* PIF: the ROM as a constant descriptor, the RAM right after it
pif_descs(mapping, d) ==
    << Desc(d.pif_base, Or32(R4300_KSEG1, mapping.begin), PIF_ROM_SIZE,
            "RETRO_MEMDESC_CONST", W(0, 0), W(0, 0)),
       Desc(d.pif_ram, Or32(R4300_KSEG1, Add32(mapping.begin, PIF_ROM_SIZE)), PIF_RAM_SIZE,
            "0", W(0, 0), W(0, 0)) >>

descs_of_exports_unbacked(mapping, d) ==
    IF mapping.type = "M64P_MEM_RDRAM" THEN rdram_descs(mapping, d)
    ELSE IF mapping.type = "M64P_MEM_RSPMEM" THEN << Generic(d.sp_mem, mapping) >>
    ELSE IF mapping.type = "M64P_MEM_FLASHRAMSTAT" THEN save_descs(mapping, d)
    ELSE IF mapping.type = "M64P_MEM_ROM" THEN << Generic(d.cart_rom, mapping) >>
    ELSE IF mapping.type = "M64P_MEM_DDREG" THEN << Generic(Regs("dd", "regs"), mapping) >>
    ELSE IF mapping.type = "M64P_MEM_DDROM" THEN << Generic(d.dd_rom, mapping) >>
    ELSE IF mapping.type = "M64P_MEM_PIF" THEN pif_descs(mapping, d)
    ELSE << Generic(mapping.retroarch_mapping.ptr, mapping),
            Generic(mapping.retroarch_mapping.ptr, mapping) >>

\* the descriptors one loop iteration writes; d is the device's pointer fields
descs_of(mapping, d) ==
    IF mapping.type = "M64P_MEM_RDRAM" THEN rdram_descs(mapping, d)
    ELSE IF mapping.type = "M64P_MEM_RSPMEM" THEN << Generic(d.sp_mem, mapping) >>
    ELSE IF mapping.type = "M64P_MEM_FLASHRAMSTAT" THEN save_descs(mapping, d)
    ELSE IF mapping.type = "M64P_MEM_ROM" THEN << Generic(d.cart_rom, mapping) >>
    ELSE IF mapping.type = "M64P_MEM_DDREG" THEN << Generic(Regs("dd", "regs"), mapping) >>
    ELSE IF mapping.type = "M64P_MEM_DDROM" THEN << Generic(d.dd_rom, mapping) >>
    ELSE IF mapping.type = "M64P_MEM_PIF" THEN pif_descs(mapping, d)
    ELSE IF mapping.retroarch_mapping.ptr # NULL
    THEN << Generic(mapping.retroarch_mapping.ptr, mapping) >>
    ELSE << >>

RECURSIVE export_loop(_, _, _, _)
export_loop(mappings, i, d, descs) ==
    IF i > Len(mappings) THEN descs
    ELSE export_loop(mappings, i + 1, d, descs \o descs_of(mappings[i], d))

\* the retro_memory_map handed to environ_cb: descriptors and num_descriptors
setup_retroarch_memory_map(mappings, d) ==
    LET descs == export_loop(mappings, 1, d, << >>)
    IN  [ descriptors |-> descs, num_descriptors |-> Len(descs),
          slots |-> Len(mappings) + 2 ]

(***************************************************************************)
(* Lifecycle entry points                                                  *)
(***************************************************************************)
GAME_CONTROLLERS_COUNT == 4

Range(f) == {f[i] : i \in DOMAIN f}

JbdName == <<"jbd0", "jbd1", "jbd2", "jbd3">>

poweron_channels_unchecked_capability(channels, i) ==
    LET F[k \in 1..(GAME_CONTROLLERS_COUNT + 1)] ==
            IF k > GAME_CONTROLLERS_COUNT THEN << >>
            ELSE (IF channels[k] # "NULL" THEN << JbdName[k] >> ELSE << >>) \o F[k + 1]
    IN  F[i]

\* for(i = 0; i < GAME_CONTROLLERS_COUNT; ++i) if (ijbd != NULL && ijbd->poweron != NULL) ...
RECURSIVE poweron_channels(_, _)
poweron_channels(channels, i) ==
    IF i > GAME_CONTROLLERS_COUNT THEN << >>
    ELSE (IF channels[i] # "NULL" /\ channels[i] # "no_poweron"
          THEN << JbdName[i] >> ELSE << >>)
         \o poweron_channels(channels, i + 1)

poweron_device_dd_before_cart(channels, dd_rom_ptr) ==
    << "rdram", "r4300", "dp", "sp", "ai", "mi", "pi", "ri", "si", "vi", "pif" >>
    \o (IF dd_rom_ptr # NULL THEN << "dd" >> ELSE << >>)
    \o << "cart", "is" >>
    \o poweron_channels(channels, 1)

poweron_device_dd_always(channels, dd_rom_ptr) ==
    << "rdram", "r4300", "dp", "sp", "ai", "mi", "pi", "ri", "si", "vi", "pif", "cart", "is" >>
    \o poweron_channels(channels, 1)
    \o << "dd" >>

\* the poweron_* calls one poweron_device makes, in order
poweron_device(channels, dd_rom_ptr) ==
    << "rdram", "r4300", "dp", "sp", "ai", "mi", "pi", "ri", "si", "vi", "pif", "cart", "is" >>
    \o poweron_channels(channels, 1)
    \o (IF dd_rom_ptr # NULL THEN << "dd" >> ELSE << >>)

stop_device_toggles(stop_flag) == 1 - stop_flag

stop_device_forgets(stop_flag) == stop_flag

\* *r4300_stop(&dev->r4300) = 1
stop_device(stop_flag) == 1

hard_reset_device_synchronous(job, ctrl_state) ==
    [ reset_hard_job |-> 0, ctrl |-> [c \in DOMAIN ctrl_state |-> "reset"] ]

\* dev->r4300.reset_hard_job = 1, nothing else
hard_reset_device(job, ctrl_state) ==
    [ reset_hard_job |-> 1, ctrl |-> ctrl_state ]

add_interrupt_event(queue, type, delay) ==
    Append(queue, [type |-> type, delay |-> delay])

soft_reset_device_nmi_first(queue) ==
    add_interrupt_event(add_interrupt_event(queue, "NMI_INT", 50000000), "HW2_INT", 0)

\* HW2 now, NMI after 50000000 cycles
soft_reset_device(queue) ==
    add_interrupt_event(add_interrupt_event(queue, "HW2_INT", 0), "NMI_INT", 50000000)

(***************************************************************************)
(* Bus dispatch over the mapping table                                     *)
(***************************************************************************)
Contains(m, address) == Geq32(address, m.begin) /\ Geq32(m.end, address)

\* entries are applied in table order, so the last entry holding the address
\* owns it and the catch-all first entry has the lowest priority
mem_get_handler(mappings, address) ==
    LET hits == {i \in DOMAIN mappings : Contains(mappings[i], address)}
    IN  mappings[CHOOSE i \in hits : \A j \in hits : j <= i]

Owner(m) == m.handler.opaque[2]

\* a controller's write handler changes that controller's state
bus_write(mappings, ctrl_state, address, value, mask) ==
    LET m == mem_get_handler(mappings, address)
    IN  IF m.handler.rw = "open_bus"
        THEN write_open_bus(ctrl_state, m.handler.opaque, address, value, mask)
        ELSE [ctrl_state EXCEPT ![Owner(m)] = "dirty"]

\* a controller's read handler answers from that controller's state
bus_read(mappings, ctrl_state, address) ==
    LET m == mem_get_handler(mappings, address)
    IN  IF m.handler.rw = "open_bus"
        THEN read_open_bus(address)
        ELSE W(0, IF ctrl_state[Owner(m)] = "dirty" THEN 1 ELSE 0)

(***************************************************************************)
(* Inputs                                                                  *)
(***************************************************************************)
MaxSoftResets == 2

RomSizes == { W(0, 0), W(\h0010, 0), W(\h0400, 0) }

DdRomSizes == { W(0, 0), W(\h0040, 0) }

Medias == { "C", "N" }

DramSize == W(\h0080, 0)

ChannelSets ==
    { << "poweron", "no_poweron", "NULL", "poweron" >>,
      << "NULL", "NULL", "NULL", "NULL" >> }

UseFlashram == { -1, 0 }

BusAddrs ==
    { W(\h0000, \h0010), W(\h0481, \habcd), W(\h0500, \h1234), W(\hffff, \h8001) }

BusValues == { W(\hdead, \hbeef) }

BusMasks == { W(0, \h00ff) }

DmaAddrs ==
    { W(\h04ff, \hffff), MM_DOM2_ADDR1, W(\h07ff, \hffff), MM_DOM2_ADDR2,
      W(\h0fff, \hffff), MM_CART_ROM, W(\h1fcf, \hffff), MM_CART_DOM3 }

\* what the caller's opaque / handler hold before get_pi_dma_handler runs
DmaOuts ==
    { [opaque |-> << "caller" >>, handler |-> "caller" ] }

Controllers ==
    { "rdram", "r4300", "dp", "sp", "ai", "mi", "pi", "ri", "si", "vi", "pif",
      "cart", "is", "dd", "jbd0", "jbd1", "jbd2", "jbd3" }

mem_base_u32(name) == << "base", name >>

(***************************************************************************)
(* Frontend: file manager and main.  A name is a tuple of one-character    *)
(* strings.  current_path is held as the lengths of its components, each   *)
(* preceded by one PATH_SEPARATOR; directory names hold no '.', so no      *)
(* suffix of current_path is a ROM extension.                              *)
(***************************************************************************)
MAX_PATH_LENGTH == 1024

MAX_FILES == 512

NAME_SIZE == 256

VISIBLE_ITEMS == 15

Min2(a, b) == IF a < b THEN a ELSE b

Take(s, n) == SubSeq(s, 1, Min2(Len(s), n))

\* the characters of the names, in ASCII order
AsciiOrder ==
    << ".", "/", "0", "1", "2", "3", "4", "5", "6", "7", "8", "9", "B", "N", "Z",
       "a", "c", "d", "e", "g", "m", "n", "o", "r", "s", "t", "x", "z" >>

Ord(c) == CHOOSE i \in DOMAIN AsciiOrder : AsciiOrder[i] = c

\* tolower on the characters of the names
ToLower(c) == IF c = "B" THEN "b" ELSE IF c = "N" THEN "n" ELSE IF c = "Z" THEN "z" ELSE c

\* strcmp(a, b) > 0
StrGreater(a, b) ==
    \E k \in 1..Len(a) :
        /\ \A i \in 1..(k - 1) : i <= Len(b) /\ a[i] = b[i]
        /\ (k > Len(b) \/ (a[k] # b[k] /\ Ord(a[k]) > Ord(b[k])))

\* strcasecmp(a, b) == 0
StrCaseEq(a, b) ==
    /\ Len(a) = Len(b)
    /\ \A i \in 1..Len(a) : ToLower(a[i]) = ToLower(b[i])

is_rom_file(filename) ==
    LET len == Len(filename)
    IN  IF len < 4 THEN FALSE
        ELSE LET ext == SubSeq(filename, len - 3, len)
             IN  \/ StrCaseEq(ext, << ".", "z", "6", "4" >>)
                 \/ StrCaseEq(ext, << ".", "n", "6", "4" >>)

\* strlen(fm->current_path)
PathLen(path) ==
    LET F[k \in 0..Len(path)] == IF k = 0 THEN 0 ELSE F[k - 1] + 1 + path[k]
    IN  F[Len(path)]

\* the inner loop's condition: entry a has to move behind entry b
SortsAfter(a, b) ==
    \/ a.is_directory < b.is_directory
    \/ (a.is_directory = b.is_directory /\ StrGreater(a.name, b.name))

\* the exchange sort: directories first, then by strcmp
RECURSIVE SortEntries(_)
SortEntries(files) ==
    IF files = << >> THEN << >>
    ELSE LET m == CHOOSE i \in DOMAIN files :
                      \A j \in DOMAIN files : j = i \/ ~SortsAfter(files[i], files[j])
             rest == [k \in 1..(Len(files) - 1) |-> IF k < m THEN files[k] ELSE files[k + 1]]
         IN  << files[m] >> \o SortEntries(rest)

IsNotDot(ent) == ent.name # << "." >>

\* the entries list_directory leaves in fm->files for what readdir returned
read_entries(dirents) ==
    LET kept == Take(SelectSeq(dirents, IsNotDot), MAX_FILES)
        files == [i \in DOMAIN kept |->
                     [ name |-> Take(kept[i].name, NAME_SIZE - 1),
                       is_directory |-> kept[i].is_directory,
                       size |-> IF kept[i].is_directory = 1 THEN 0 ELSE kept[i].size ]]
    IN  SortEntries(files)

dpad_up(fm) ==
    IF fm.selected_index > 0
    THEN LET sel == fm.selected_index - 1
         IN  [fm EXCEPT !.selected_index = sel,
                        !.scroll_offset = IF sel < fm.scroll_offset THEN sel
                                          ELSE fm.scroll_offset]
    ELSE fm

dpad_down_without_scroll(fm) ==
    IF fm.selected_index < fm.file_count - 1
    THEN [fm EXCEPT !.selected_index = fm.selected_index + 1]
    ELSE fm

dpad_down(fm) ==
    IF fm.selected_index < fm.file_count - 1
    THEN LET sel == fm.selected_index + 1
         IN  [fm EXCEPT !.selected_index = sel,
                        !.scroll_offset = IF sel >= fm.scroll_offset + fm.visible_items
                                          THEN sel - fm.visible_items + 1
                                          ELSE fm.scroll_offset]
    ELSE fm

\* snprintf(selected_rom, rom_buffer_size, "%s%c%s", current_path, PATH_SEPARATOR, name):
\* the directory part is kept as its length, the rest as characters
selected_path(current_path, name, rom_buffer_size) ==
    LET room == rom_buffer_size - 1
        dir == Min2(PathLen(current_path), room)
    IN  [ dir_len |-> dir, tail |-> Take(<< "/" >> \o name, room - dir) ]

\* the string a path stands for, as far as is_rom_file looks at it: its last
\* characters, with "d" for a character of the directory part
PathString(p) == [i \in 1..Min2(p.dir_len, 4) |-> "d"] \o p.tail

EmptyPath == [ dir_len |-> 0, tail |-> << >> ]

\* the names of the model's files and directories
DotName == << "." >>

DotDotName == << ".", "." >>

RomsName == << "r", "o", "m", "s" >>

RomName == << "a", ".", "z", "6", "4" >>

UpperRomName == << "x", ".", "N", "6", "4" >>

TextName == << "c", ".", "t", "x", "t" >>

ShortName == << "z", "6", "4" >>

BareExtName == << ".", "n", "6", "4" >>

NoDotName == << "a", "z", "6", "4" >>

Digits == << "0", "1", "2", "3", "4", "5", "6", "7", "8", "9" >>

NumberedName(i) ==
    << "g", Digits[(i \div 10) + 1], Digits[(i % 10) + 1], ".", "n", "6", "4" >>

Dirent(name, is_directory) == [ name |-> name, is_directory |-> is_directory, size |-> 1 ]

\* a directory with more entries than the list shows at once
BigDirCount == 16

DirSmall ==
    << Dirent(RomName, 0), Dirent(DotName, 1), Dirent(TextName, 0), Dirent(RomsName, 1),
       Dirent(DotDotName, 1) >>

DirBig ==
    << Dirent(DotName, 1), Dirent(DotDotName, 1) >>
    \o [i \in 1..BigDirCount |-> Dirent(NumberedName(BigDirCount - i), 0)]

\* what readdir can return for a directory; << >> is a failed opendir
Listings == { << >>, DirSmall, DirBig }

\* getcwd results: a short one and one close to MAX_PATH_LENGTH
Cwds == { << 4, 4 >>, << 250, 250, 250, 250, 15 >> }

\* argv[1]
ArgPaths == { RomName, UpperRomName, TextName, ShortName, BareExtName, NoDotName }

\* components of current_path the browser is followed to
MaxDepth == 3

\* read_entries, tabulated over the directories of the model
Listed == [dirents \in Listings |-> read_entries(dirents)]

\* dirents: what readdir returns for current_path, or << >> when opendir fails
list_directory(fm, dirents) ==
    [fm EXCEPT !.files = Listed[dirents], !.file_count = Len(Listed[dirents])]

\* "..": cut at the last separator unless it is the first character; otherwise
\* append separator and name, truncated to the buffer; then list and reset
change_directory(fm, dir, dirents) ==
    LET path == IF dir = << ".", "." >>
                THEN (IF Len(fm.current_path) > 1
                      THEN SubSeq(fm.current_path, 1, Len(fm.current_path) - 1)
                      ELSE fm.current_path)
                ELSE (IF PathLen(fm.current_path) >= MAX_PATH_LENGTH - 1
                      THEN fm.current_path
                      ELSE Append(fm.current_path,
                                  Min2(Len(dir),
                                       MAX_PATH_LENGTH - 1 - PathLen(fm.current_path) - 1)))
        listed == list_directory([fm EXCEPT !.current_path = path], dirents)
    IN  [listed EXCEPT !.selected_index = 0, !.scroll_offset = 0]

FmZero ==
    [ current_path |-> << >>, files |-> << >>, file_count |-> 0, selected_index |-> 0,
      scroll_offset |-> 0, visible_items |-> 0 ]

(***************************************************************************)
(* State                                                                   *)
(***************************************************************************)
VARIABLES
    lifecycle,          \* UNCOMPOSED, BUILT, POWERED, RUNNING, STOPPED
    cfg,                \* the arguments init_device is called with
    mem_mappings,       \* dev->mem: the table init_memory was given
    r4300_handlers,     \* dev->r4300: the table init_r4300 was given
    dd_rom,             \* dev->dd.rom
    pi,                 \* dev->pi: cart and dd given to init_pi
    pif_rom_base,       \* the rom_base init_pif was given
    xrefs,              \* the controller references each init_* call was given
    retromap,           \* the map handed to environ_cb
    init_order,         \* init_* calls of init_device, in order
    poweron_calls,      \* poweron_* calls of the latest poweron_device, in order
    ctrl,               \* each controller's register state
    stop,               \* *r4300_stop(&dev->r4300)
    reset_hard_job,     \* dev->r4300.reset_hard_job
    enqueued,           \* add_interrupt_event calls so far, in order
    soft_resets,        \* number of soft_reset_device calls so far
    fe,                 \* the frontend: main's position, rom_path, the file manager
    call                \* the latest entry point called, its arguments and result

devvars ==
    << lifecycle, cfg, mem_mappings, r4300_handlers, dd_rom, pi, pif_rom_base, xrefs,
       retromap, init_order, poweron_calls, ctrl, stop, reset_hard_job,
       enqueued, soft_resets >>

vars == << devvars, fe, call >>

\* what environ_cb(RETRO_ENVIRONMENT_SET_MEMORY_MAPS, ...) can return
EnvironResults == {FALSE, TRUE}

Call(op) ==
    [ op |-> op, address |-> W(0, 0), value |-> W(0, 0), mask |-> W(0, 0),
      opaque |-> NULL, handler |-> "" ]

DevInit ==
    /\ lifecycle = "UNCOMPOSED"
    /\ cfg \in [ rom_size : RomSizes, dd_rom_size : DdRomSizes, media : Medias,
                 dram_size : {DramSize}, channels : ChannelSets,
                 use_flashram : UseFlashram ]
    /\ mem_mappings = << >>
    /\ r4300_handlers = << >>
    /\ dd_rom = NULL
    /\ pi = [cart |-> NULL, dd |-> NULL]
    /\ pif_rom_base = NULL
    /\ xrefs = [c \in DOMAIN cross_references(W(0, 0)) |-> { }]
    /\ retromap = [descriptors |-> << >>, num_descriptors |-> 0, slots |-> 0]
    /\ init_order = << >>
    /\ poweron_calls = << >>
    /\ ctrl = [c \in Controllers |-> "raw"]
    /\ stop = 0
    /\ reset_hard_job = 0
    /\ enqueued = << >>
    /\ soft_resets = 0
    /\ call = Call("none")

\* the device is composed by a core that main has loaded with a ROM
Init ==
    /\ DevInit
    /\ fe = [ phase |-> "core", rom_path |-> [ dir_len |-> 0, tail |-> RomName ],
              initialized |-> TRUE, controller |-> FALSE, fm |-> FmZero ]

(***************************************************************************)
(* init_device                                                             *)
(***************************************************************************)
InitDevice ==
    /\ lifecycle = "UNCOMPOSED"
    /\ LET mappings == build_mappings(cfg.dram_size, cfg.rom_size, cfg.dd_rom_size)
           dd_rom_after == IF dd_present(cfg.dd_rom_size)
                           THEN mem_base_u32("MM_DD_ROM") ELSE dd_rom
           d == [ rdram_dram |-> mem_base_u32("MM_RDRAM_DRAM"),
                  sp_mem |-> mem_base_u32("MM_RSP_MEM"),
                  cart_rom |-> mem_base_u32("MM_CART_ROM"),
                  dd_rom |-> dd_rom_after,
                  pif_base |-> mem_base_u32("MM_PIF_MEM"),
                  pif_ram |-> mem_base_u32("MM_PIF_MEM+PIF_ROM_SIZE"),
                  use_flashram |-> cfg.use_flashram ]
       IN  /\ dd_rom' = dd_rom_after
           /\ mem_mappings' = mappings
           /\ r4300_handlers' = interrupt_handlers
           /\ pi' = [cart |-> Field(dev, "cart"), dd |-> Field(dev, "dd")]
           /\ pif_rom_base' = select_rom_base(cfg.rom_size, cfg.dd_rom_size, cfg.media)
           /\ init_order' = init_device_calls(cfg.dd_rom_size)
           /\ xrefs' = cross_references(cfg.dd_rom_size)
           /\ retromap' = setup_retroarch_memory_map(mappings, d)
    /\ lifecycle' = "BUILT"
    /\ \E environ_ret \in EnvironResults :
          call' = [Call("init_device") EXCEPT
                      !.handler = IF environ_ret THEN "environ_cb:true" ELSE "environ_cb:false"]
    /\ UNCHANGED << cfg, poweron_calls, ctrl, stop, reset_hard_job, enqueued, soft_resets >>
    /\ UNCHANGED fe

(***************************************************************************)
(* poweron_device, run_device                                              *)
(***************************************************************************)
PoweronEffect(ctrl_state, calls) ==
    [c \in DOMAIN ctrl_state |-> IF c \in Range(calls) THEN "reset" ELSE ctrl_state[c]]

Poweron ==
    /\ lifecycle \in {"BUILT", "POWERED"}
    /\ LET calls == poweron_device(cfg.channels, dd_rom)
       IN  /\ poweron_calls' = calls
           /\ ctrl' = PoweronEffect(ctrl, calls)
    /\ lifecycle' = "POWERED"
    /\ call' = Call("poweron_device")
    /\ UNCHANGED << cfg, mem_mappings, r4300_handlers, dd_rom, pi, pif_rom_base, xrefs,
                    retromap, init_order, stop, reset_hard_job, enqueued, soft_resets >>
    /\ UNCHANGED fe

Run_without_poweron ==
    /\ lifecycle \in {"BUILT", "POWERED"}
    /\ lifecycle' = "RUNNING"
    /\ call' = Call("run_device")
    /\ UNCHANGED << cfg, mem_mappings, r4300_handlers, dd_rom, pi, pif_rom_base, xrefs,
                    retromap, init_order, poweron_calls, ctrl, stop, reset_hard_job,
                    enqueued, soft_resets >>
    /\ UNCHANGED fe

Run ==
    /\ lifecycle = "POWERED"
    /\ lifecycle' = "RUNNING"
    /\ call' = Call("run_device")
    /\ UNCHANGED << cfg, mem_mappings, r4300_handlers, dd_rom, pi, pif_rom_base, xrefs,
                    retromap, init_order, poweron_calls, ctrl, stop, reset_hard_job,
                    enqueued, soft_resets >>
    /\ UNCHANGED fe

(***************************************************************************)
(* What the CPU core does while run_device is in progress                  *)
(***************************************************************************)
BusRead ==
    /\ lifecycle = "RUNNING"
    /\ \E a \in BusAddrs :
          call' = [Call("read") EXCEPT !.address = a,
                                       !.value = bus_read(mem_mappings, ctrl, a)]
    /\ UNCHANGED devvars
    /\ UNCHANGED fe

BusWrite ==
    /\ lifecycle = "RUNNING"
    /\ \E a \in BusAddrs, v \in BusValues, m \in BusMasks :
          /\ ctrl' = bus_write(mem_mappings, ctrl, a, v, m)
          /\ call' = [Call("write") EXCEPT !.address = a, !.value = v, !.mask = m]
    /\ UNCHANGED << lifecycle, cfg, mem_mappings, r4300_handlers, dd_rom, pi,
                    pif_rom_base, xrefs, retromap, init_order, poweron_calls, stop,
                    reset_hard_job, enqueued, soft_resets >>
    /\ UNCHANGED fe

DmaResolve ==
    /\ lifecycle = "RUNNING"
    /\ \E a \in DmaAddrs, out \in DmaOuts :
          LET r == get_pi_dma_handler(pi.cart, pi.dd, a, out)
          IN  call' = [Call("dma") EXCEPT !.address = a, !.opaque = r.opaque,
                                          !.handler = r.handler, !.value = out.opaque]
    /\ UNCHANGED devvars
    /\ UNCHANGED fe

\* the interrupt checkpoint: a pending hard reset runs reset_hard_handler, which
\* powers the device on again; a pending stop ends run_device
GenInterrupt ==
    /\ lifecycle = "RUNNING"
    /\ IF reset_hard_job = 1
       THEN LET calls == poweron_device(cfg.channels, dd_rom)
            IN  /\ poweron_calls' = calls
                /\ ctrl' = PoweronEffect(ctrl, calls)
                /\ reset_hard_job' = 0
       ELSE UNCHANGED << poweron_calls, ctrl, reset_hard_job >>
    /\ lifecycle' = IF stop = 1 THEN "STOPPED" ELSE "RUNNING"
    /\ call' = Call("gen_interrupt")
    /\ UNCHANGED << cfg, mem_mappings, r4300_handlers, dd_rom, pi, pif_rom_base, xrefs,
                    retromap, init_order, stop, enqueued, soft_resets >>
    /\ UNCHANGED fe

(***************************************************************************)
(* stop_device, hard_reset_device, soft_reset_device                       *)
(***************************************************************************)
Stop ==
    /\ lifecycle = "RUNNING"
    /\ stop' = stop_device(stop)
    /\ call' = Call("stop_device")
    /\ UNCHANGED << lifecycle, cfg, mem_mappings, r4300_handlers, dd_rom, pi,
                    pif_rom_base, xrefs, retromap, init_order, poweron_calls, ctrl,
                    reset_hard_job, enqueued, soft_resets >>
    /\ UNCHANGED fe

HardReset_rebuilds_mappings ==
    /\ lifecycle = "RUNNING"
    /\ reset_hard_job' = 1
    /\ mem_mappings' = mappings_table(cfg.dram_size, cfg.rom_size)
    /\ call' = Call("hard_reset_device")
    /\ UNCHANGED << lifecycle, cfg, r4300_handlers, dd_rom, pi, pif_rom_base, xrefs,
                    retromap, init_order, poweron_calls, ctrl, stop, enqueued,
                    soft_resets >>
    /\ UNCHANGED fe

HardReset ==
    /\ lifecycle = "RUNNING"
    /\ LET r == hard_reset_device(reset_hard_job, ctrl)
       IN  /\ reset_hard_job' = r.reset_hard_job
           /\ ctrl' = r.ctrl
    /\ call' = Call("hard_reset_device")
    /\ UNCHANGED << lifecycle, cfg, mem_mappings, r4300_handlers, dd_rom, pi,
                    pif_rom_base, xrefs, retromap, init_order, poweron_calls, stop,
                    enqueued, soft_resets >>
    /\ UNCHANGED fe

SoftReset ==
    /\ lifecycle = "RUNNING"
    /\ soft_resets < MaxSoftResets
    /\ enqueued' = soft_reset_device(enqueued)
    /\ soft_resets' = soft_resets + 1
    /\ call' = Call("soft_reset_device")
    /\ UNCHANGED << lifecycle, cfg, mem_mappings, r4300_handlers, dd_rom, pi,
                    pif_rom_base, xrefs, retromap, init_order, poweron_calls, ctrl, stop,
                    reset_hard_job >>
    /\ UNCHANGED fe

Next ==
    \/ InitDevice
    \/ Poweron
    \/ Run
    \/ BusRead
    \/ BusWrite
    \/ DmaResolve
    \/ GenInterrupt
    \/ Stop
    \/ HardReset
    \/ SoftReset

Spec == Init /\ [][Next]_vars

\* one cartridge, with and without a disk drive
LiveInit ==
    /\ Init
    /\ cfg.rom_size = W(\h0010, 0)
    /\ cfg.media = "N"
    /\ cfg.use_flashram = -1
    /\ cfg.channels[1] = "poweron"

\* the CPU core's loop keeps running and keeps reaching its interrupt checkpoint
FairSpec == LiveInit /\ [][Next]_vars /\ WF_vars(GenInterrupt)

(***************************************************************************)
(* Frontend: main and the frames of run_file_manager, one button a frame   *)
(***************************************************************************)
FrontInit ==
    /\ DevInit
    /\ cfg = [ rom_size |-> W(\h0010, 0), dd_rom_size |-> W(0, 0), media |-> "N",
               dram_size |-> DramSize, channels |-> << "NULL", "NULL", "NULL", "NULL" >>,
               use_flashram |-> -1 ]
    /\ fe = [ phase |-> "main", rom_path |-> EmptyPath, initialized |-> FALSE,
              controller |-> FALSE, fm |-> FmZero ]

\* a step of the frontend and the function it ends up calling
Frame(op, callee) == [Call(op) EXCEPT !.handler = callee]

\* main with argv[1]: die unless is_rom_file, else initialise and load the core
MainWithRom ==
    /\ fe.phase = "main"
    /\ \E arg \in ArgPaths :
          LET rom_path == [ dir_len |-> 0, tail |-> Take(arg, MAX_PATH_LENGTH - 1) ]
          IN  IF ~is_rom_file(PathString(rom_path))
              THEN /\ fe' = [fe EXCEPT !.phase = "exit_failure", !.rom_path = rom_path]
                   /\ call' = Frame("main", "die")
              ELSE /\ fe' = [fe EXCEPT !.phase = "core", !.rom_path = rom_path,
                                       !.initialized = TRUE]
                   /\ call' = Frame("main", "core_load_game")
    /\ UNCHANGED devvars

\* main without arguments enters run_file_manager, which lists the directory
MainNoArgs ==
    /\ fe.phase = "main"
    /\ \E cwd \in Cwds, dirents \in Listings, controller \in BOOLEAN :
          LET listed == list_directory([FmZero EXCEPT !.current_path = cwd], dirents)
          IN  fe' = [fe EXCEPT !.phase = "file_manager",
                               !.rom_path = EmptyPath,
                               !.controller = controller,
                               !.fm = [listed EXCEPT !.selected_index = 0,
                                                     !.scroll_offset = 0,
                                                     !.visible_items = VISIBLE_ITEMS]]
    /\ call' = Frame("main", "run_file_manager")
    /\ UNCHANGED devvars

ControllerAdded ==
    /\ fe.phase = "file_manager"
    /\ ~fe.controller
    /\ fe' = [fe EXCEPT !.controller = TRUE]
    /\ call' = Frame("run_file_manager", "")
    /\ UNCHANGED devvars

ControllerRemoved ==
    /\ fe.phase = "file_manager"
    /\ fe.controller
    /\ fe' = [fe EXCEPT !.controller = FALSE]
    /\ call' = Frame("run_file_manager", "")
    /\ UNCHANGED devvars

DpadUp ==
    /\ fe.phase = "file_manager"
    /\ fe.controller
    /\ fe' = [fe EXCEPT !.fm = dpad_up(fe.fm)]
    /\ call' = Frame("run_file_manager", "")
    /\ UNCHANGED devvars

DpadDown ==
    /\ fe.phase = "file_manager"
    /\ fe.controller
    /\ fe' = [fe EXCEPT !.fm = dpad_down(fe.fm)]
    /\ call' = Frame("run_file_manager", "")
    /\ UNCHANGED devvars

\* A: enter the selected directory, or return the selected ROM's path
ButtonA ==
    /\ fe.phase = "file_manager"
    /\ fe.controller
    /\ LET fm == fe.fm
       IN  IF fm.file_count > 0 /\ fm.selected_index >= 0 /\ fm.selected_index < fm.file_count
           THEN LET entry == fm.files[fm.selected_index + 1]
                IN  IF entry.is_directory = 1
                    THEN /\ (entry.name = DotDotName \/ Len(fm.current_path) < MaxDepth)
                         /\ \E dirents \in Listings :
                               fe' = [fe EXCEPT !.fm = change_directory(fm, entry.name, dirents)]
                         /\ call' = Frame("run_file_manager", "change_directory")
                    ELSE IF is_rom_file(entry.name)
                    THEN /\ fe' = [fe EXCEPT
                                     !.rom_path = selected_path(fm.current_path, entry.name,
                                                                MAX_PATH_LENGTH),
                                     !.phase = "returned"]
                         /\ call' = Frame("run_file_manager", "snprintf")
                    ELSE /\ fe' = fe
                         /\ call' = Frame("run_file_manager", "")
           ELSE /\ fe' = fe
                /\ call' = Frame("run_file_manager", "")
    /\ UNCHANGED devvars

ButtonB ==
    /\ fe.phase = "file_manager"
    /\ fe.controller
    /\ \E dirents \in Listings :
          fe' = [fe EXCEPT !.fm = change_directory(fe.fm, DotDotName, dirents)]
    /\ call' = Frame("run_file_manager", "change_directory")
    /\ UNCHANGED devvars

\* Y: list the directory again; the selection is left as it is
ButtonY ==
    /\ fe.phase = "file_manager"
    /\ fe.controller
    /\ \E dirents \in Listings :
          fe' = [fe EXCEPT !.fm = list_directory(fe.fm, dirents)]
    /\ call' = Frame("run_file_manager", "list_directory")
    /\ UNCHANGED devvars

ButtonStart ==
    /\ fe.phase = "file_manager"
    /\ fe.controller
    /\ fe' = [fe EXCEPT !.phase = "returned"]
    /\ call' = Frame("run_file_manager", "")
    /\ UNCHANGED devvars

Quit ==
    /\ fe.phase = "file_manager"
    /\ fe' = [fe EXCEPT !.phase = "returned"]
    /\ call' = Frame("run_file_manager", "")
    /\ UNCHANGED devvars

\* main after run_file_manager: exit if nothing was selected, else load the core
MainAfterFileManager ==
    /\ fe.phase = "returned"
    /\ IF fe.rom_path.dir_len + Len(fe.rom_path.tail) = 0
       THEN /\ fe' = [fe EXCEPT !.phase = "exit_success"]
            /\ call' = Frame("main", "return EXIT_SUCCESS")
       ELSE /\ fe' = [fe EXCEPT !.phase = "core", !.initialized = TRUE]
            /\ call' = Frame("main", "core_load_game")
    /\ UNCHANGED devvars

FrontNext ==
    \/ MainWithRom
    \/ MainNoArgs
    \/ ControllerAdded
    \/ ControllerRemoved
    \/ DpadUp
    \/ DpadDown
    \/ ButtonA
    \/ ButtonB
    \/ ButtonY
    \/ ButtonStart
    \/ Quit
    \/ MainAfterFileManager

FrontSpec == FrontInit /\ [][FrontNext]_vars

(***************************************************************************)
(* Properties                                                              *)
(***************************************************************************)
Composed == lifecycle # "UNCOMPOSED"

\* an entry other than the catch-all first entry holds the address
Covered(address) ==
    \E i \in 2..Len(mem_mappings) : Contains(mem_mappings[i], address)

\* C1: a bus read of an address that no specific region covers returns the low
\* 16 address bits in both halves of the word.
C1_OpenBusRead ==
    (call.op = "read" /\ ~Covered(call.address))
        => call.value = << call.address[2], call.address[2] >>

C1_Witness ==
    /\ call.op = "read"
    /\ ~Covered(call.address)
    /\ call.address = W(\h0481, \habcd)
    /\ call.value = W(\habcd, \habcd)

\* C2: a bus write to an address that no specific region covers leaves the whole
\* device state as it was, and every address reads as it read before.
C2_OpenBusWrite ==
    [][ (call'.op = "write" /\ ~Covered(call'.address))
          => /\ UNCHANGED devvars
             /\ \A a \in BusAddrs :
                   bus_read(mem_mappings', ctrl', a) = bus_read(mem_mappings, ctrl, a) ]_vars

C2_Witness ==
    /\ call.op = "write"
    /\ ~Covered(call.address)
    /\ \E c \in Controllers : ctrl[c] = "dirty"

IsDdMapping(m) ==
    \/ m.type \in {"M64P_MEM_DDREG", "M64P_MEM_DDROM"}
    \/ m.handler.rw \in {"dd_regs", "dd_rom"}
    \/ m.handler.opaque = << "dev", "dd" >>

IsReservedOpenBus(m, begin) ==
    /\ m.type = "M64P_MEM_NOTHING"
    /\ m.handler.rw = "open_bus"
    /\ m.handler.opaque = NULL
    /\ m.begin = begin

\* C3: with disk-ROM size 0 the mapping table has no disk-drive entry and slots
\* 14 and 15 keep the reserved open-bus entries; disk-drive entries are present
\* exactly when the disk-ROM size is nonzero.
C3_DdMappingsIffPresent ==
    Composed =>
        /\ (cfg.dd_rom_size = W(0, 0)) =>
              /\ \A i \in DOMAIN mem_mappings : ~IsDdMapping(mem_mappings[i])
              /\ IsReservedOpenBus(mem_mappings[15], W(\h0500, 0))
              /\ IsReservedOpenBus(mem_mappings[16], W(\h0600, 0))
        /\ (\E i \in DOMAIN mem_mappings : IsDdMapping(mem_mappings[i]))
              <=> (cfg.dd_rom_size # W(0, 0))

C3_Witness ==
    /\ Composed
    /\ cfg.dd_rom_size = W(0, 0)
    /\ Len(mem_mappings) = 20
    /\ mem_mappings[15].handler.rw = "open_bus"

IsDdInterruptHandler(h) ==
    \/ h.handler \in {"dd_mecha_int_handler", "dd_bm_int_handler", "dd_dv_int_handler"}
    \/ h.opaque = << "dev", "dd" >>

\* C4: with disk-ROM size 0 the interrupt table registered with the CPU core
\* holds no disk-drive handler.
C4_NoDdInterruptHandlers ==
    (Composed /\ cfg.dd_rom_size = W(0, 0))
        => \A i \in DOMAIN r4300_handlers : ~IsDdInterruptHandler(r4300_handlers[i])

\* C5: poweron_device calls the disk-drive power-on exactly when a disk drive
\* was composed, whichever poweron call it is.
C5_PoweronDdIffComposed ==
    (poweron_calls # << >>)
        => (("dd" \in Range(poweron_calls)) <=> (cfg.dd_rom_size # W(0, 0)))

C5_Witness ==
    /\ cfg.dd_rom_size = W(0, 0)
    /\ call.op = "poweron_device"
    /\ ctrl["rdram"] = "reset"
    /\ "dd" \notin Range(poweron_calls)

\* C6 as stated: the disk-drive ROM supplies the boot vector only if a disk
\* drive is present and the cartridge is absent or not combo media.
C6_Original ==
    Composed =>
        ((pif_rom_base = MM_DD_ROM)
            <=> (cfg.dd_rom_size # W(0, 0) /\ (cfg.rom_size = W(0, 0) \/ cfg.media # "C")))

\* C6 amended: the disk-drive ROM supplies the boot vector iff the cartridge is
\* absent (with or without a disk drive) or a disk drive is present and the
\* cartridge is not combo media; otherwise the cartridge ROM supplies it.
C6_BootVector ==
    Composed =>
        /\ pif_rom_base \in {W(\h0600, 0), W(\h1000, 0)}
        /\ (pif_rom_base = W(\h0600, 0))
              <=> \/ cfg.rom_size = W(0, 0)
                  \/ (cfg.dd_rom_size # W(0, 0) /\ cfg.media # "C")

C6_Witness ==
    /\ Composed
    /\ cfg.rom_size = W(0, 0)
    /\ cfg.dd_rom_size = W(0, 0)
    /\ pif_rom_base = MM_DD_ROM

C8_DdBandOnlyWithDd ==
    (call.op = "dma" /\ call.address[1] >= \h0500 /\ call.address[1] < \h0800)
        => IF cfg.dd_rom_size # W(0, 0)
           THEN call.handler = "dd_dom"
           ELSE call.handler # "dd_dom" /\ call.opaque # << "dev", "dd" >>

SoftResetEvents ==
    << [type |-> "HW2_INT", delay |-> 0], [type |-> "NMI_INT", delay |-> 50000000] >>

\* C9: every soft_reset_device call enqueues HW2 at offset 0 and then NMI at
\* offset 50000000 and changes nothing else; after n calls 2n events are queued
\* in that alternating order.
C9_SoftReset ==
    /\ [](/\ Len(enqueued) = 2 * soft_resets
          /\ \A k \in 1..soft_resets :
                /\ enqueued[2 * k - 1] = SoftResetEvents[1]
                /\ enqueued[2 * k] = SoftResetEvents[2])
    /\ [][ (call'.op = "soft_reset_device")
             => /\ enqueued' = enqueued \o SoftResetEvents
                /\ UNCHANGED << lifecycle, cfg, mem_mappings, r4300_handlers, dd_rom,
                                pi, pif_rom_base, xrefs, retromap, init_order, poweron_calls,
                                ctrl, stop, reset_hard_job >> ]_vars

C9_Witness ==
    /\ call.op = "soft_reset_device"
    /\ soft_resets = 2
    /\ Len(enqueued) = 4

Mandatory ==
    { "rdram", "r4300", "dp", "sp", "ai", "mi", "pi", "ri", "si", "vi", "pif", "cart" }

\* C10: hard_reset_device only sets the deferred flag; while the flag is set no
\* controller is reset by any step but the interrupt checkpoint, which resets
\* every controller and clears the flag.
C10_HardResetDeferred ==
    /\ [][ (call'.op = "hard_reset_device")
             => /\ reset_hard_job' = 1
                /\ UNCHANGED << lifecycle, cfg, mem_mappings, r4300_handlers, dd_rom,
                                pi, pif_rom_base, xrefs, retromap, init_order, poweron_calls,
                                ctrl, stop, enqueued, soft_resets >> ]_vars
    /\ [][ (reset_hard_job = 1
            /\ \E c \in Controllers : ctrl[c] # "reset" /\ ctrl'[c] = "reset")
             => call'.op = "gen_interrupt" ]_vars
    /\ [][ (reset_hard_job = 1 /\ call'.op = "gen_interrupt")
             => /\ reset_hard_job' = 0
                /\ \A c \in Mandatory : ctrl'[c] = "reset" ]_vars

C10_Witness ==
    /\ call.op = "hard_reset_device"
    /\ reset_hard_job = 1
    /\ \E c \in Controllers : ctrl[c] = "dirty"

\* C11: stop_device only sets the stop flag to 1: every other device variable is
\* unchanged, the device is still running right after the call, and a further
\* call leaves the flag at 1.
C11_StopOnlySetsFlag ==
    [][ (call'.op = "stop_device")
          => /\ stop' = 1
             /\ lifecycle' = "RUNNING"
             /\ UNCHANGED << lifecycle, cfg, mem_mappings, r4300_handlers, dd_rom, pi,
                             pif_rom_base, xrefs, retromap, init_order, poweron_calls,
                             ctrl, reset_hard_job, enqueued, soft_resets >> ]_vars

C11_Witness ==
    /\ call.op = "stop_device"
    /\ stop = 1
    /\ lifecycle = "RUNNING"

\* C12: once stop_device has been called during run_device, run_device
\* eventually returns (STOPPED), given that the CPU core keeps reaching its
\* interrupt checkpoint; and run_device returns only from a checkpoint that
\* sees the stop flag set.
C12_StopEndsRun ==
    /\ (call.op = "stop_device") ~> (lifecycle = "STOPPED")
    /\ [][ (lifecycle' = "STOPPED" /\ lifecycle # "STOPPED")
             => (lifecycle = "RUNNING" /\ stop = 1 /\ call'.op = "gen_interrupt") ]_vars

C12_Witness ==
    /\ lifecycle = "STOPPED"
    /\ stop = 1
    /\ call.op = "gen_interrupt"

\* C13: the mapping table, the interrupt table and the cross references are all
\* built by the time run_device is entered, and no step after init_device
\* changes any of them.
C13_TablesFixedAfterCompose ==
    /\ [](lifecycle \in {"RUNNING", "STOPPED"}
            => /\ Len(mem_mappings) = 20
               /\ Len(r4300_handlers) = 16
               /\ pi = [cart |-> << "dev", "cart" >>, dd |-> << "dev", "dd" >>]
               /\ xrefs.pi = { "cart", "dd", "mi", "ri", "dp" }
               /\ \A c \in Mandatory : xrefs[c] # { })
    /\ [][ Composed => UNCHANGED << mem_mappings, r4300_handlers, pi, xrefs >> ]_vars

C13_Witness ==
    /\ lifecycle = "STOPPED"
    /\ soft_resets > 0
    /\ \E c \in Controllers : ctrl[c] = "dirty"
    /\ Len(mem_mappings) = 20
    /\ mem_mappings[15].type = "M64P_MEM_DDREG"

Overlap(a, b) == Geq32(a.end, b.begin) /\ Geq32(b.end, a.begin)

\* C14: in the mapping table of every configuration the ranges [begin, end] of
\* the specific regions (all but the catch-all) are pairwise disjoint.
C14_SpecificRegionsDisjoint ==
    Composed =>
        \A i, j \in 2..Len(mem_mappings) :
            (i < j) => ~Overlap(mem_mappings[i], mem_mappings[j])

RdramEntries == {i \in DOMAIN mem_mappings : mem_mappings[i].type = "M64P_MEM_RDRAM"}

RdramDescs ==
    {i \in DOMAIN retromap.descriptors :
        retromap.descriptors[i].ptr = << "base", "MM_RDRAM_DRAM" >>}

\* C15 as stated: the RAM region is registered twice in the mapping table, and
\* the cached and the uncached alias address both reach RAM on the bus.
C15_Original ==
    Composed =>
        /\ Cardinality(RdramEntries) = 2
        /\ mem_get_handler(mem_mappings, W(\h8000, \h0010)).handler.rw = "rdram_dram"
        /\ mem_get_handler(mem_mappings, W(\ha000, \h0010)).handler.rw = "rdram_dram"

\* C15 amended: RAM is registered once in the mapping table, at physical base 0;
\* the cached and uncached aliases exist only in the host export, as two
\* descriptors at KSEG0 and KSEG1 over one backing pointer, and neither alias
\* address lies in the RAM region of the bus.
C15_RamAliasesInExport ==
    Composed =>
        /\ RdramEntries = {2}
        /\ mem_mappings[2].begin = W(0, 0)
        /\ mem_mappings[2].end = W(\h03ef, \hffff)
        /\ ~Contains(mem_mappings[2], W(\h8000, \h0010))
        /\ ~Contains(mem_mappings[2], W(\ha000, \h0010))
        /\ Cardinality(RdramDescs) = 2
        /\ {retromap.descriptors[i].start : i \in RdramDescs}
               = { W(\h8000, 0), W(\ha000, 0) }

C15_Witness ==
    /\ Composed
    /\ Cardinality(RdramDescs) = 2
    /\ Cardinality(RdramEntries) = 1

SaveDescs ==
    {i \in DOMAIN retromap.descriptors :
        retromap.descriptors[i].ptr \in { << "dev", "cart", "sram" >>,
                                          << "dev", "cart", "flashram" >> }}

\* C16: exactly one save-media descriptor is exported; its pointer is the flash
\* buffer iff use_flashram is not -1 and the SRAM buffer iff it is -1; the
\* exported map is not changed after init_device.
C16_SaveMediaPointer ==
    /\ [](Composed =>
            /\ Cardinality(SaveDescs) = 1
            /\ \A i \in SaveDescs :
                  /\ (retromap.descriptors[i].ptr = << "dev", "cart", "flashram" >>)
                        <=> (cfg.use_flashram # -1)
                  /\ (retromap.descriptors[i].ptr = << "dev", "cart", "sram" >>)
                        <=> (cfg.use_flashram = -1)
                  /\ retromap.descriptors[i].start = W(\ha800, 0))
    /\ [][ Composed => UNCHANGED retromap ]_vars

C16_Witness ==
    /\ Composed
    /\ cfg.use_flashram = -1
    /\ \E i \in SaveDescs : retromap.descriptors[i].ptr = << "dev", "cart", "sram" >>

\* C17: the mapping table has 20 entries with or without a disk drive; every
\* index but 15 and 16 (slots 14 and 15 of the C array) holds the same entry in
\* both cases; with a disk drive exactly those two hold the disk-drive registers
\* and ROM, at the begin addresses of the reserved window and the placeholder.
C17_SlotSubstitution ==
    Composed =>
        LET t == mappings_table(cfg.dram_size, cfg.rom_size)
            DdSlots == {i \in DOMAIN mem_mappings :
                           mem_mappings[i].type \in {"M64P_MEM_DDREG", "M64P_MEM_DDROM"}}
        IN  /\ Len(mem_mappings) = 20
            /\ Len(t) = 20
            /\ \A i \in (1..20) \ {15, 16} : mem_mappings[i] = t[i]
            /\ (cfg.dd_rom_size # W(0, 0)) =>
                   /\ DdSlots = {15, 16}
                   /\ mem_mappings[15].type = "M64P_MEM_DDREG"
                   /\ mem_mappings[16].type = "M64P_MEM_DDROM"
                   /\ mem_mappings[15].begin = t[15].begin
                   /\ mem_mappings[16].begin = t[16].begin
                   /\ mem_mappings[15] # t[15]
                   /\ mem_mappings[16] # t[16]
            /\ (cfg.dd_rom_size = W(0, 0)) =>
                   /\ DdSlots = { }
                   /\ mem_mappings[15] = t[15]
                   /\ mem_mappings[16] = t[16]

C17_Witness ==
    /\ Composed
    /\ cfg.dd_rom_size # W(0, 0)
    /\ Len(mem_mappings) = 20
    /\ mem_mappings[15].type = "M64P_MEM_DDREG"
    /\ mem_mappings[16].type = "M64P_MEM_DDROM"

ControllerOrder ==
    << "rdram", "r4300", "dp", "sp", "ai", "mi", "pi", "ri", "si", "vi", "pif", "cart" >>

IsController(c) == c \in Range(ControllerOrder) \cup {"dd"}

\* C18 as stated: init_device initialises the controllers in the order RAM, CPU
\* core, ..., cartridge, and last the disk drive when there is one.
C18_Original ==
    Composed =>
        SelectSeq(init_order, IsController)
            = ControllerOrder \o (IF cfg.dd_rom_size # W(0, 0) THEN << "dd" >> ELSE << >>)

\* C18 amended: init_device initialises the disk drive first when there is one,
\* then the bus, then RAM, CPU core, ..., cartridge in the stated order, each
\* exactly once.
C18_ComposeOrder ==
    Composed =>
        init_order = (IF cfg.dd_rom_size # W(0, 0) THEN << "dd" >> ELSE << >>)
                         \o << "memory" >> \o ControllerOrder
                         \o << "setup_retroarch_memory_map" >>

C18_Witness ==
    /\ Composed
    /\ cfg.dd_rom_size # W(0, 0)
    /\ init_order[1] = "dd"
    /\ init_order[Len(init_order) - 1] = "cart"

IsChannel(c) == c \in Range(JbdName)

\* C20: a poweron_device call powers on channel i iff the channel has a device
\* interface and the interface has a poweron function; the powered channels
\* appear once each, in channel order, and the call completes for every
\* combination of missing interfaces and missing capabilities.
C20_ChannelPoweron ==
    (poweron_calls # << >>) =>
        LET jbds == SelectSeq(poweron_calls, IsChannel)
        IN  /\ \A i \in 1..GAME_CONTROLLERS_COUNT :
                   (JbdName[i] \in Range(poweron_calls)) <=> (cfg.channels[i] = "poweron")
            /\ \A i \in 1..GAME_CONTROLLERS_COUNT :
                   Cardinality({k \in DOMAIN poweron_calls : poweron_calls[k] = JbdName[i]}) <= 1
            /\ \A a, b \in DOMAIN jbds :
                   (a < b) => \E i, j \in 1..GAME_CONTROLLERS_COUNT :
                                  i < j /\ jbds[a] = JbdName[i] /\ jbds[b] = JbdName[j]
            /\ lifecycle # "BUILT"

C20_Witness ==
    /\ call.op = "poweron_device"
    /\ cfg.channels = << "poweron", "no_poweron", "NULL", "poweron" >>
    /\ SelectSeq(poweron_calls, IsChannel) = << "jbd0", "jbd3" >>
    /\ ctrl["jbd0"] = "reset"
    /\ ctrl["jbd1"] = "raw"
    /\ ctrl["jbd2"] = "raw"

\* the hardware event kinds, in the order of the interrupt table, with the
\* owner and the handler the routing names for each
EventRouting ==
    << << "VI",         << "dev", "vi" >>,           "vi_vertical_interrupt_event" >>,
       << "COMPARE",    << "dev", "r4300" >>,        "compare_int_handler" >>,
       << "CHECK",      << "dev", "r4300" >>,        "check_int_handler" >>,
       << "SI",         << "dev", "si" >>,           "si_end_of_dma_event" >>,
       << "PI",         << "dev", "pi" >>,           "pi_end_of_dma_event" >>,
       << "SPECIAL",    << "dev", "r4300", "cp0" >>, "special_int_handler" >>,
       << "AI",         << "dev", "ai" >>,           "ai_end_of_dma_event" >>,
       << "SP",         << "dev", "sp" >>,           "rsp_interrupt_event" >>,
       << "DP",         << "dev", "dp" >>,           "rdp_interrupt_event" >>,
       << "HW2",        << "dev", "pif" >>,          "hw2_int_handler" >>,
       << "NMI",        << "dev" >>,                 "nmi_int_handler" >>,
       << "reset_hard", << "dev" >>,                 "reset_hard_handler" >>,
       << "RSP_DMA",    << "dev", "sp" >>,           "rsp_end_of_dma_event" >> >>

\* C21: the interrupt table holds, for each listed event kind, the listed owner
\* and handler; each of these handlers is registered at exactly one index; the
\* table is written by init_device only.
C21_InterruptRouting ==
    /\ [](Composed =>
            /\ Len(r4300_handlers) >= Len(EventRouting)
            /\ \A k \in DOMAIN EventRouting :
                  /\ r4300_handlers[k].opaque = EventRouting[k][2]
                  /\ r4300_handlers[k].handler = EventRouting[k][3]
                  /\ Cardinality({i \in DOMAIN r4300_handlers :
                         r4300_handlers[i].handler = EventRouting[k][3]}) = 1)
    /\ [][ (r4300_handlers' # r4300_handlers) => call'.op = "init_device" ]_vars

C21_Witness ==
    /\ lifecycle = "RUNNING"
    /\ call.op = "gen_interrupt"
    /\ r4300_handlers[13] = [opaque |-> << "dev", "sp" >>, handler |-> "rsp_end_of_dma_event"]
    /\ r4300_handlers[1] = [opaque |-> << "dev", "vi" >>, handler |-> "vi_vertical_interrupt_event"]

LifecycleSteps ==
    { << "UNCOMPOSED", "BUILT" >>, << "BUILT", "POWERED" >>,
      << "POWERED", "RUNNING" >>, << "RUNNING", "STOPPED" >> }

CachedRdramDescs ==
    {i \in RdramDescs : retromap.descriptors[i].start = Or32(R4300_KSEG0, mem_mappings[2].begin)}

UncachedRdramDescs ==
    {i \in RdramDescs : retromap.descriptors[i].start = Or32(R4300_KSEG1, mem_mappings[2].begin)}

\* C23: the export holds exactly two descriptors over the RDRAM pointer: one at
\* KSEG0 with select 0x20000000 and disconnect 0xC0000000, one at KSEG1 with
\* both masks 0; the two have the same length and flags.
C23_RdramExportedTwice ==
    Composed =>
        /\ Cardinality(RdramDescs) = 2
        /\ Cardinality(CachedRdramDescs) = 1
        /\ Cardinality(UncachedRdramDescs) = 1
        /\ \A i \in CachedRdramDescs :
              /\ retromap.descriptors[i].select = W(\h2000, 0)
              /\ retromap.descriptors[i].disconnect = W(\hc000, 0)
        /\ \A j \in UncachedRdramDescs :
              /\ retromap.descriptors[j].select = W(0, 0)
              /\ retromap.descriptors[j].disconnect = W(0, 0)
        /\ \A i, j \in RdramDescs :
              /\ retromap.descriptors[i].len = retromap.descriptors[j].len
              /\ retromap.descriptors[i].flags = retromap.descriptors[j].flags
              /\ retromap.descriptors[i].len = mem_mappings[2].retroarch_mapping.len

C23_Witness ==
    /\ Composed
    /\ \E i, j \in RdramDescs :
          /\ retromap.descriptors[i].start = W(\h8000, 0)
          /\ retromap.descriptors[i].select = W(\h2000, 0)
          /\ retromap.descriptors[j].start = W(\ha000, 0)
          /\ retromap.descriptors[j].select = W(0, 0)

PifEntries == {i \in DOMAIN mem_mappings : mem_mappings[i].type = "M64P_MEM_PIF"}

PifDescs ==
    {i \in DOMAIN retromap.descriptors :
        retromap.descriptors[i].ptr \in { mem_base_u32("MM_PIF_MEM"),
                                          mem_base_u32("MM_PIF_MEM+PIF_ROM_SIZE") }}

\* C24: the one PIF entry of the mapping table is exported as exactly two
\* consecutive descriptors: a constant one of PIF_ROM_SIZE bytes at KSEG1 | begin
\* and a writable one of PIF_RAM_SIZE bytes that starts at the first one's start
\* plus its length; both lie inside the PIF region.
C24_PifSplit ==
    Composed =>
        /\ Cardinality(PifEntries) = 1
        /\ Cardinality(PifDescs) = 2
        /\ \E i \in PifDescs :
              LET rom == retromap.descriptors[i]
                  ram == retromap.descriptors[i + 1]
              IN  /\ i + 1 \in PifDescs
                  /\ rom.ptr = mem_base_u32("MM_PIF_MEM")
                  /\ ram.ptr = mem_base_u32("MM_PIF_MEM+PIF_ROM_SIZE")
                  /\ rom.flags = "RETRO_MEMDESC_CONST"
                  /\ ram.flags = "0"
                  /\ rom.len = PIF_ROM_SIZE
                  /\ ram.len = PIF_RAM_SIZE
                  /\ \A e \in PifEntries : rom.start = Or32(R4300_KSEG1, mem_mappings[e].begin)
                  /\ ram.start = Add32(rom.start, rom.len)
                  /\ rom.len # W(0, 0)
                  /\ Geq32(ram.start, rom.start)
                  /\ ram.start # rom.start

C24_Witness ==
    /\ Composed
    /\ \E i \in PifDescs :
          /\ retromap.descriptors[i].flags = "RETRO_MEMDESC_CONST"
          /\ retromap.descriptors[i].start = W(\hbfc0, 0)
          /\ retromap.descriptors[i + 1].start = W(\hbfc0, \h07c0)

SpecialTypes ==
    { "M64P_MEM_RDRAM", "M64P_MEM_RSPMEM", "M64P_MEM_FLASHRAMSTAT", "M64P_MEM_ROM",
      "M64P_MEM_DDREG", "M64P_MEM_DDROM", "M64P_MEM_PIF" }

Exported ==
    {i \in DOMAIN mem_mappings :
        \/ mem_mappings[i].type \in SpecialTypes
        \/ mem_mappings[i].retroarch_mapping.ptr # NULL}

\* C25: the number of descriptors written is the number of entries that have a
\* special type or a backing pointer, plus one for the RDRAM entry and one for
\* the PIF entry; it never exceeds the N + 2 slots allocated, and since the
\* count only grows during the loop no intermediate count does either.
C25_ExportWithinSlots ==
    Composed =>
        /\ retromap.slots = Len(mem_mappings) + 2
        /\ retromap.num_descriptors = Len(retromap.descriptors)
        /\ Cardinality(RdramEntries) <= 1
        /\ Cardinality(PifEntries) <= 1
        /\ retromap.num_descriptors
               = Cardinality(Exported) + Cardinality(RdramEntries) + Cardinality(PifEntries)
        /\ retromap.num_descriptors <= retromap.slots

C25_Witness ==
    /\ Composed
    /\ Cardinality(Exported) < Len(mem_mappings)
    /\ retromap.num_descriptors = Cardinality(Exported) + 2
    /\ retromap.num_descriptors <= retromap.slots

ExporterReads == { "rdram", "sp", "cart", "pif" }

Position(seq, x) == CHOOSE i \in DOMAIN seq : seq[i] = x

\* C26: init_device calls the exporter once, as its last call, after the
\* init_* call of every controller whose pointer the exporter reads (and after
\* init_dd when there is a disk drive); the export is computed from the built
\* table; whatever environ_cb returns, init_device ends in the same state.
C26_ExporterLastOnce ==
    /\ [](Composed =>
            LET e == "setup_retroarch_memory_map"
            IN  /\ Cardinality({i \in DOMAIN init_order : init_order[i] = e}) = 1
                /\ init_order[Len(init_order)] = e
                /\ \A c \in ExporterReads :
                      /\ c \in Range(init_order)
                      /\ Position(init_order, c) < Position(init_order, e)
                /\ (cfg.dd_rom_size # W(0, 0)) =>
                      /\ "dd" \in Range(init_order)
                      /\ Position(init_order, "dd") < Position(init_order, e)
                      /\ \E i \in DOMAIN retromap.descriptors :
                            retromap.descriptors[i].ptr = << "dev", "dd", "regs" >>
                /\ retromap.slots = Len(mem_mappings) + 2)
    /\ [][ (call'.op = "init_device")
              => /\ lifecycle' = "BUILT"
                 /\ Len(mem_mappings') = 20
                 /\ retromap'.num_descriptors > 0
                 /\ call'.handler \in {"environ_cb:true", "environ_cb:false"} ]_vars
    /\ [][ (retromap' # retromap) => call'.op = "init_device" ]_vars

C26_Witness ==
    /\ call.op = "init_device"
    /\ call.handler = "environ_cb:false"
    /\ lifecycle = "BUILT"
    /\ init_order[Len(init_order)] = "setup_retroarch_memory_map"
    /\ retromap.num_descriptors > 0

\* C27: for a DMA address below MM_DOM2_ADDR1 (0x05000000) the resolver writes
\* neither output, so both still hold what the caller had put there; for every
\* other address both are written.
C27_ResolverNotTotal ==
    (call.op = "dma") =>
        /\ (call.address[1] < \h0500)
              => /\ call.opaque = call.value
                 /\ call.opaque \in {o.opaque : o \in DmaOuts}
                 /\ call.handler \in {o.handler : o \in DmaOuts}
        /\ (call.address[1] >= \h0500)
              => /\ call.opaque \notin {o.opaque : o \in DmaOuts}
                 /\ call.handler \notin {o.handler : o \in DmaOuts}

C27_Witness ==
    /\ call.op = "dma"
    /\ call.address = W(\h04ff, \hffff)
    /\ call.handler = "caller"
    /\ call.opaque = << "caller" >>

InBrowser == fe.phase = "file_manager"

\* C28: in the file browser the selected index is never negative and, when the
\* listing is not empty, is below file_count.
C28_SelectedIndexInRange ==
    InBrowser =>
        /\ fe.fm.selected_index >= 0
        /\ (fe.fm.file_count > 0) => (fe.fm.selected_index < fe.fm.file_count)

\* C29: in the file browser scroll_offset >= 0 and scroll_offset <=
\* selected_index < scroll_offset + visible_items; every change_directory call
\* leaves selected_index and scroll_offset at 0.
C29_SelectionVisible ==
    /\ [](InBrowser =>
            /\ fe.fm.scroll_offset >= 0
            /\ fe.fm.scroll_offset <= fe.fm.selected_index
            /\ fe.fm.selected_index < fe.fm.scroll_offset + fe.fm.visible_items
            /\ fe.fm.visible_items = VISIBLE_ITEMS)
    /\ [][ (call'.handler = "change_directory")
              => (fe'.fm.selected_index = 0 /\ fe'.fm.scroll_offset = 0) ]_vars

C29_Witness ==
    /\ InBrowser
    /\ fe.fm.file_count > VISIBLE_ITEMS
    /\ fe.fm.selected_index = fe.fm.file_count - 1
    /\ fe.fm.scroll_offset = fe.fm.file_count - VISIBLE_ITEMS
    /\ fe.fm.scroll_offset > 0

\* C30: the core is initialised only with a rom_path that is_rom_file accepts; a
\* rejected command-line path and a browser closed without a selection end the
\* program with the core not initialised.
C30_CoreOnlyWithRomPath ==
    /\ fe.initialized => is_rom_file(PathString(fe.rom_path))
    /\ (fe.phase = "returned" /\ fe.rom_path # EmptyPath)
          => is_rom_file(PathString(fe.rom_path))
    /\ (fe.phase \in {"exit_failure", "exit_success"}) => ~fe.initialized
    /\ (fe.phase = "exit_failure") => ~is_rom_file(PathString(fe.rom_path))
    /\ (fe.phase = "exit_success") => (fe.rom_path = EmptyPath)

====
